---- MODULE Spec2Model ----
(***************************************************************************)
(* A model of pysudoku (src/sudoku.py): the Celda / Grupo / Tablero data   *)
(* model, the elimination rules of Grupo.revisar, the round loop of        *)
(* Tablero.revisar and the recursive search of Tablero.resolver, driven    *)
(* the way main() drives them: cargar, then resolver.                      *)
(*                                                                         *)
(* A board (Tablero) is the sequence of its SIZE*SIZE cells; cell number c *)
(* of the model is self.celdas[c-1].  A cell is a record                   *)
(*   valor    : 0 for None, else the value                                 *)
(*   posible  : the list of candidates, in list order                      *)
(*   original : the attribute Celda.original, one of the Python values     *)
(*              False, True, None or a Logger object, written as strings   *)
(* The groups are fixed index lists (the topology built by                 *)
(* Tablero.__init__), so a board value carries no references: copiar()     *)
(* builds fresh Celda objects and copies every list, which is what a value *)
(* copy is.                                                                *)
(***************************************************************************)
EXTENDS Integers, Sequences, FiniteSets, TLC

SIZE == 9
LIMITE == 5

None == 0

\* int(math.sqrt(SIZE))
aux == CHOOSE a \in 1..SIZE : a * a = SIZE

NCeldas == SIZE * SIZE

\* Python values of the logger argument / of Celda.original
PyNone == "None"
PyFalse == "False"
PyTrue == "True"
PyLogger == "Logger"
Truthy(x) == x \in {PyTrue, PyLogger}

Range(s) == {s[i] : i \in 1..Len(s)}

(* A loop that threads the board through its turns is evaluated by thirds: *)
(* the turns lo..hi are the first third, then the second on the board the  *)
(* first left, then the rest.  Tercio is the length of a third, rounded up.*)
Tercio(lo, hi) == (hi - lo + 3) \div 3

----------------------------------------------------------------------------
(* Topology: Tablero.__init__.  Cell of row i, column j (0-based) is       *)
(* number i*SIZE + j + 1.                                                  *)

CeldaEn(i, j) == i * SIZE + j + 1
FilaDe(c) == (c - 1) \div SIZE
ColumnaDe(c) == (c - 1) % SIZE
CuadroDe(c) == (ColumnaDe(c) \div aux) + (FilaDe(c) \div aux) * aux

\* the cells of a group in the order agrupar() appended them
TodasCeldas == [c \in 1..NCeldas |-> c]
Filas == [i \in 1..SIZE |-> SelectSeq(TodasCeldas, LAMBDA c : FilaDe(c) = i - 1)]
Columnas == [j \in 1..SIZE |-> SelectSeq(TodasCeldas, LAMBDA c : ColumnaDe(c) = j - 1)]
Cuadros == [b \in 1..SIZE |-> SelectSeq(TodasCeldas, LAMBDA c : CuadroDe(c) = b - 1)]

\* self.filas + self.columnas + self.cuadros
Grupos == Filas \o Columnas \o Cuadros

\* Celda.grupos: a dict filled in the order FILA, COLUMNA, CUADRO
GruposDe == [c \in 1..NCeldas |->
               << Filas[FilaDe(c) + 1], Columnas[ColumnaDe(c) + 1], Cuadros[CuadroDe(c) + 1] >>]

\* Celda.__init__
CeldaNueva == [valor |-> None, posible |-> [x \in 1..SIZE |-> x], original |-> PyFalse]

\* Tablero.__init__
TableroNuevo == [c \in 1..NCeldas |-> CeldaNueva]

----------------------------------------------------------------------------
(* Celda                                                                   *)

vacia(t, c) == t[c].valor = None

\* list.remove(v) for a list that holds v: drops its first occurrence
ListRemove(s, v) ==
  LET i == CHOOSE i \in 1..Len(s) : s[i] = v /\ \A j \in 1..(i - 1) : s[j] # v
  IN  [j \in 1..(Len(s) - 1) |-> IF j < i THEN s[j] ELSE s[j + 1]]

(* setvalor and quitar call each other through Grupo.quitar: assigning a   *)
(* value removes it from the cells of the three groups, and a cell left    *)
(* with one candidate is assigned in turn, depth first.  The recursion is  *)
(* run here on an explicit call stack, one entry per setvalor call that is *)
(* in its loop over self.grupos.                                           *)

\* Celda.setvalor, its test and its three assignments (before the loop)
Asignada(t, c, valor, original) ==
  [t EXCEPT ![c] = [valor |-> valor, posible |-> << valor >>, original |-> original]]

\* QuitarHasta without the call of setvalor when one candidate is left
QuitarHasta_sin_asignar(t, c, valor) ==
  IF vacia(t, c) /\ valor \in Range(t[c].posible)
  THEN LET p == ListRemove(t[c].posible, valor) IN
       [t |-> [t EXCEPT ![c].posible = p],
        asigna |-> None,
        r |-> Len(p) > 0]
  ELSE [t |-> t, asigna |-> None, r |-> Len(t[c].posible) > 0]

\* Celda.quitar up to its call of setvalor: the board after the removal,
\* `asigna` the value it then calls setvalor with (None when it makes no
\* call) and `r` the value it returns when it makes no call
QuitarHasta(t, c, valor) ==
  IF vacia(t, c) /\ valor \in Range(t[c].posible)
  THEN LET p == ListRemove(t[c].posible, valor) IN
       [t |-> [t EXCEPT ![c].posible = p],
        asigna |-> IF Len(p) = 1 THEN p[1] ELSE None,
        r |-> Len(p) > 0]
  ELSE [t |-> t, asigna |-> None, r |-> Len(t[c].posible) > 0]

\* a setvalor call in its loop `for _, v in self.grupos.items()`: it is at
\* group number `grupo` of the cell (FILA, COLUMNA, CUADRO), and v.quitar is
\* at position k of that group's cells
Llamada(c, valor, logger) ==
  [celda |-> c, valor |-> valor, logger |-> logger, grupo |-> 1, k |-> 1]

\* Paso with the loop over self.grupos stopping after FILA and COLUMNA
Paso_sin_cuadro(m) ==
  LET n == Len(m.pila)
      f == m.pila[n]
      caux == GruposDe[f.celda][f.grupo][f.k]
      sigue == [m.pila EXCEPT ![n].k = f.k + 1]
      otro == [m.pila EXCEPT ![n].grupo = f.grupo + 1, ![n].k = 1]
  IN  IF f.grupo > 2 THEN [t |-> m.t, pila |-> SubSeq(m.pila, 1, n - 1)]
      ELSE IF f.k > SIZE THEN [t |-> m.t, pila |-> otro]
      ELSE IF caux # f.celda /\ vacia(m.t, caux)
      THEN LET q == QuitarHasta(m.t, caux, f.valor) IN
           IF q.asigna # None
           THEN [t |-> Asignada(q.t, caux, q.asigna, f.logger),
                 pila |-> Append(sigue, Llamada(caux, q.asigna, PyNone))]
           ELSE IF ~ q.r THEN [t |-> q.t, pila |-> otro]
           ELSE [t |-> q.t, pila |-> sigue]
      ELSE [t |-> m.t, pila |-> sigue]

\* one step of the innermost call.  caux.quitar(valor, logger) that leaves
\* one candidate calls self.setvalor(self.posible[0], logger): logger is
\* bound to the parameter `original`, the callee's own logger is None, and
\* the call returns True because posible[0] is in posible.  A False from
\* caux.quitar makes Grupo.quitar return at once; setvalor ignores what
\* Grupo.quitar returns and goes on with the next group.
Paso(m) ==
  LET n == Len(m.pila)
      f == m.pila[n]
      caux == GruposDe[f.celda][f.grupo][f.k]
      sigue == [m.pila EXCEPT ![n].k = f.k + 1]
      otro == [m.pila EXCEPT ![n].grupo = f.grupo + 1, ![n].k = 1]
  IN  IF f.grupo > 3 THEN [t |-> m.t, pila |-> SubSeq(m.pila, 1, n - 1)]
      ELSE IF f.k > SIZE THEN [t |-> m.t, pila |-> otro]
      ELSE IF caux # f.celda /\ vacia(m.t, caux)
      THEN LET q == QuitarHasta(m.t, caux, f.valor) IN
           IF q.asigna # None
           THEN [t |-> Asignada(q.t, caux, q.asigna, f.logger),
                 pila |-> Append(sigue, Llamada(caux, q.asigna, PyNone))]
           ELSE IF ~ q.r THEN [t |-> q.t, pila |-> otro]
           ELSE [t |-> q.t, pila |-> sigue]
      ELSE [t |-> m.t, pila |-> sigue]

\* up to 4^n steps, stopping when the outermost call has returned
RECURSIVE Correr(_, _)
Correr(m, n) ==
  LET a == Correr(m, n - 1)
      b == Correr(a, n - 1)
      d == Correr(b, n - 1)
  IN  CASE n = 0 -> Paso(m)
        [] a.pila = << >> -> a
        [] b.pila = << >> -> b
        [] d.pila = << >> -> d
        [] OTHER -> Correr(d, n - 1)

\* a call makes 3 * SIZE + 4 steps and every call assigns another cell
RECURSIVE Pot4(_)
Pot4(n) == IF n = 0 THEN 1 ELSE 4 * Pot4(n - 1)
PasosLog == CHOOSE n \in 0..16 : Pot4(n) >= NCeldas * (3 * SIZE + 4)
                                 /\ (n = 0 \/ Pot4(n - 1) < NCeldas * (3 * SIZE + 4))

\* Celda.setvalor(valor, original, logger) on cell c of board t: the board
\* afterwards and the value returned
Celda_setvalor(t, c, valor, original, logger) ==
  IF valor \in Range(t[c].posible)
  THEN [t |-> Correr([t |-> Asignada(t, c, valor, original),
                      pila |-> << Llamada(c, valor, logger) >>], PasosLog).t,
        r |-> TRUE]
  ELSE [t |-> t, r |-> FALSE]

\* Celda.quitar(valor, logger)
Celda_quitar(t, c, valor, logger) ==
  LET q == QuitarHasta(t, c, valor) IN
  IF q.asigna # None
  THEN Celda_setvalor(q.t, c, q.asigna, logger, PyNone)
  ELSE [t |-> q.t, r |-> q.r]

\* Celda.incluye(lista)
Celda_incluye(t, c, lista) == Range(lista) \subseteq Range(t[c].posible)

----------------------------------------------------------------------------
(* Tablero.cargar                                                          *)

\* the turns lo..hi of the two nested loops of cargar, numbered row-major as
\* the loops visit the grid: turn c is cell c; the first rejected value
\* returns False at once
RECURSIVE CargarEntre(_, _, _, _, _)
CargarEntre(t, tablero, lo, hi, logger) ==
  LET d == Tercio(lo, hi)
      a == CargarEntre(t, tablero, lo, lo + d - 1, logger)
      b == CargarEntre(a.t, tablero, lo + d, lo + 2 * d - 1, logger)
  IN  CASE lo > hi -> [t |-> t, r |-> TRUE]
        [] lo = hi ->
             LET v == tablero[FilaDe(lo) + 1][ColumnaDe(lo) + 1] IN
             IF v # 0
             THEN Celda_setvalor(t, lo, v, PyTrue, logger)
             ELSE [t |-> t, r |-> TRUE]
        [] ~ a.r -> a
        [] ~ b.r -> b
        [] OTHER -> CargarEntre(b.t, tablero, lo + 2 * d, hi, logger)

Tablero_cargar(t, tablero, logger) == CargarEntre(t, tablero, 1, NCeldas, logger)

----------------------------------------------------------------------------
(* Grupo: g is the group's list of cells                                   *)

\* Grupo.verificar: the loop over self.celdas from position k, `total`
\* being the values not yet seen
RECURSIVE VerificarDesde(_, _, _, _)
VerificarDesde(t, g, k, total) ==
  IF k > Len(g) THEN total = << >>
  ELSE IF vacia(t, g[k]) THEN FALSE
  ELSE VerificarDesde(t, g, k + 1,
                      IF t[g[k]].valor \in Range(total)
                      THEN ListRemove(total, t[g[k]].valor) ELSE total)

\* verificar without its last test `if total`: a group with no empty cell
\* counts as solved
Grupo_verificar_sin_total(t, g) == \A k \in 1..Len(g) : ~ vacia(t, g[k])

Grupo_verificar(t, g) == VerificarDesde(t, g, 1, [x \in 1..SIZE |-> x])

\* Grupo.incluye(comb): how many cells of the group include comb
Grupo_incluye(t, g, comb) ==
  Cardinality({k \in 1..Len(g) : Celda_incluye(t, g[k], comb)})

\* Grupo.incluye_unit(comb): how many (cell, elem) pairs have elem but not comb
Grupo_incluye_unit(t, g, comb) ==
  Cardinality({ke \in (1..Len(g)) \X (1..Len(comb)) :
                  /\ Celda_incluye(t, g[ke[1]], << comb[ke[2]] >>)
                  /\ ~ Celda_incluye(t, g[ke[1]], comb)})

\* int(b) for a Python bool
BoolInt(b) == IF b THEN 1 ELSE 0

\* for valor in resto: cambios += celda.quitar(valor, logger), turns lo..hi
RECURSIVE QuitarResto(_, _, _, _, _, _)
QuitarResto(t, c, resto, lo, hi, logger) ==
  LET d == Tercio(lo, hi)
      a == QuitarResto(t, c, resto, lo, lo + d - 1, logger)
      b == QuitarResto(a.t, c, resto, lo + d, lo + 2 * d - 1, logger)
      e == QuitarResto(b.t, c, resto, lo + 2 * d, hi, logger)
  IN  CASE lo > hi -> [t |-> t, r |-> 0]
        [] lo = hi ->
             LET q == Celda_quitar(t, c, resto[lo], logger)
             IN  [t |-> q.t, r |-> BoolInt(q.r)]
        [] OTHER -> [r |-> a.r + b.r + e.r, t |-> e.t]

\* Grupo.asignar(comb, logger): the turns lo..hi of the loop over self.celdas
RECURSIVE AsignarEntre(_, _, _, _, _, _, _)
AsignarEntre(t, g, lo, hi, comb, resto, logger) ==
  LET d == Tercio(lo, hi)
      a == AsignarEntre(t, g, lo, lo + d - 1, comb, resto, logger)
      b == AsignarEntre(a.t, g, lo + d, lo + 2 * d - 1, comb, resto, logger)
      e == AsignarEntre(b.t, g, lo + 2 * d, hi, comb, resto, logger)
  IN  CASE lo > hi -> [t |-> t, r |-> 0]
        [] lo = hi ->
             IF vacia(t, g[lo]) /\ Celda_incluye(t, g[lo], comb)
             THEN QuitarResto(t, g[lo], resto, 1, Len(resto), logger)
             ELSE [t |-> t, r |-> 0]
        [] OTHER -> [r |-> a.r + b.r + e.r, t |-> e.t]

Grupo_asignar(t, g, comb, logger) ==
  AsignarEntre(t, g, 1, Len(g), comb,
               SelectSeq([x \in 1..SIZE |-> x], LAMBDA i : i \notin Range(comb)),
               logger)

\* itertools.combinations(pool, r), in the order it yields them
RECURSIVE combinations(_, _)
combinations(pool, r) ==
  IF r = 0 THEN << << >> >>
  ELSE IF Len(pool) < r THEN << >>
  ELSE LET con == combinations(Tail(pool), r - 1)
       IN  [i \in 1..Len(con) |-> << Head(pool) >> \o con[i]]
           \o combinations(Tail(pool), r)

\* Grupo.revisar, first loop, inner part: for valor in celda1.posible, the
\* turns lo..hi over the list `vals` the for statement took hold of.
\* (setvalor rebinds celda1.posible to a new list, and nothing removes from
\* the list of a cell that has a value, so the list iterated is never
\* mutated.)  The call celda1.setvalor(valor, logger) passes logger as
\* `original`.
RECURSIVE RevisarValores(_, _, _, _, _, _, _)
RevisarValores(t, g, celda1, vals, lo, hi, logger) ==
  LET d == Tercio(lo, hi)
      a == RevisarValores(t, g, celda1, vals, lo, lo + d - 1, logger)
      b == RevisarValores(a.t, g, celda1, vals, lo + d, lo + 2 * d - 1, logger)
      e == RevisarValores(b.t, g, celda1, vals, lo + 2 * d, hi, logger)
  IN  CASE lo > hi -> [t |-> t, r |-> 0]
        [] lo = hi ->
             IF Grupo_incluye(t, g, << vals[lo] >>) = 1
             THEN [t |-> Celda_setvalor(t, celda1, vals[lo], logger, PyNone).t, r |-> 1]
             ELSE [t |-> t, r |-> 0]
        [] OTHER -> [r |-> a.r + b.r + e.r, t |-> e.t]

\* the first loop without its test `if celda1.vacia()`
RECURSIVE RevisarUnicos_sin_vacia(_, _, _, _, _)
RevisarUnicos_sin_vacia(t, g, lo, hi, logger) ==
  LET d == Tercio(lo, hi)
      a == RevisarUnicos_sin_vacia(t, g, lo, lo + d - 1, logger)
      b == RevisarUnicos_sin_vacia(a.t, g, lo + d, lo + 2 * d - 1, logger)
      e == RevisarUnicos_sin_vacia(b.t, g, lo + 2 * d, hi, logger)
  IN  CASE lo > hi -> [t |-> t, r |-> 0]
        [] lo = hi ->
             RevisarValores(t, g, g[lo], t[g[lo]].posible, 1, Len(t[g[lo]].posible), logger)
        [] OTHER -> [r |-> a.r + b.r + e.r, t |-> e.t]

\* Grupo.revisar, first loop: for celda1 in self.celdas, turns lo..hi
RECURSIVE RevisarUnicos(_, _, _, _, _)
RevisarUnicos(t, g, lo, hi, logger) ==
  LET d == Tercio(lo, hi)
      a == RevisarUnicos(t, g, lo, lo + d - 1, logger)
      b == RevisarUnicos(a.t, g, lo + d, lo + 2 * d - 1, logger)
      e == RevisarUnicos(b.t, g, lo + 2 * d, hi, logger)
  IN  CASE lo > hi -> [t |-> t, r |-> 0]
        [] lo = hi ->
             IF vacia(t, g[lo])
             THEN RevisarValores(t, g, g[lo], t[g[lo]].posible, 1, Len(t[g[lo]].posible), logger)
             ELSE [t |-> t, r |-> 0]
        [] OTHER -> [r |-> a.r + b.r + e.r, t |-> e.t]

\* Grupo.revisar, second loop, innermost: for comb in combinations(...), the
\* turns lo..hi over the combinations `combs` of length largo
RECURSIVE RevisarCombs(_, _, _, _, _, _, _)
RevisarCombs(t, g, combs, lo, hi, largo, logger) ==
  LET d == Tercio(lo, hi)
      a == RevisarCombs(t, g, combs, lo, lo + d - 1, largo, logger)
      b == RevisarCombs(a.t, g, combs, lo + d, lo + 2 * d - 1, largo, logger)
      e == RevisarCombs(b.t, g, combs, lo + 2 * d, hi, largo, logger)
  IN  CASE lo > hi -> [t |-> t, r |-> 0]
        [] lo = hi ->
             IF /\ Grupo_incluye(t, g, combs[lo]) = largo
                /\ largo = Len(combs[lo])
                /\ Grupo_incluye_unit(t, g, combs[lo]) = 0
             THEN Grupo_asignar(t, g, combs[lo], logger)
             ELSE [t |-> t, r |-> 0]
        [] OTHER -> [r |-> a.r + b.r + e.r, t |-> e.t]

\* for largo in range(1, len(celda.posible)): the turns lo..hi; the range is
\* fixed when the loop starts, combinations() copies celda.posible when it
\* is called
RECURSIVE RevisarLargos(_, _, _, _, _, _)
RevisarLargos(t, g, celda, lo, hi, logger) ==
  LET d == Tercio(lo, hi)
      a == RevisarLargos(t, g, celda, lo, lo + d - 1, logger)
      b == RevisarLargos(a.t, g, celda, lo + d, lo + 2 * d - 1, logger)
      e == RevisarLargos(b.t, g, celda, lo + 2 * d, hi, logger)
  IN  CASE lo > hi -> [t |-> t, r |-> 0]
        [] lo = hi ->
             LET combs == combinations(t[celda].posible, lo)
             IN  IF combs = << >> THEN [r |-> 0, t |-> t]
                 ELSE RevisarCombs(t, g, combs, 1, Len(combs), lo, logger)
        [] OTHER -> [r |-> a.r + b.r + e.r, t |-> e.t]

\* Grupo.revisar, second loop: for celda in self.celdas, turns lo..hi
RECURSIVE RevisarSubconjuntos(_, _, _, _, _)
RevisarSubconjuntos(t, g, lo, hi, logger) ==
  LET d == Tercio(lo, hi)
      a == RevisarSubconjuntos(t, g, lo, lo + d - 1, logger)
      b == RevisarSubconjuntos(a.t, g, lo + d, lo + 2 * d - 1, logger)
      e == RevisarSubconjuntos(b.t, g, lo + 2 * d, hi, logger)
  IN  CASE lo > hi -> [t |-> t, r |-> 0]
        [] lo = hi ->
             RevisarLargos(t, g, g[lo], 1, Len(t[g[lo]].posible) - 1, logger)
        [] OTHER -> [r |-> a.r + b.r + e.r, t |-> e.t]

\* Grupo.revisar(logger): the board afterwards and the count returned
Grupo_revisar(t, g, logger) ==
  LET a == RevisarUnicos(t, g, 1, Len(g), logger)
      b == RevisarSubconjuntos(a.t, g, 1, Len(g), logger)
  IN  [r |-> a.r + b.r, t |-> b.t]

----------------------------------------------------------------------------
(* Tablero                                                                 *)

\* one round of Tablero.revisar: every row, every column, every box; the
\* turns lo..hi over Grupos
RECURSIVE RevisarGrupos(_, _, _, _)
RevisarGrupos(t, lo, hi, logger) ==
  LET d == Tercio(lo, hi)
      a == RevisarGrupos(t, lo, lo + d - 1, logger)
      b == RevisarGrupos(a.t, lo + d, lo + 2 * d - 1, logger)
      e == RevisarGrupos(b.t, lo + 2 * d, hi, logger)
  IN  CASE lo > hi -> [t |-> t, r |-> 0]
        [] lo = hi ->
             Grupo_revisar(t, Grupos[lo], logger)
        [] OTHER -> [r |-> a.r + b.r + e.r, t |-> e.t]

\* Tablero.revisar: the rounds from round number `vuelta_n` on, cambios_tot
\* being the count of the rounds before
RECURSIVE RevisarVueltas(_, _, _, _)
RevisarVueltas(t, vuelta_n, cambios_tot, logger) ==
  LET a == RevisarGrupos(t, 1, Len(Grupos), logger)
  IN  CASE vuelta_n > LIMITE -> [t |-> t, r |-> cambios_tot]
        [] a.r = 0 -> [t |-> a.t, r |-> cambios_tot]
        [] OTHER -> RevisarVueltas(a.t, vuelta_n + 1, cambios_tot + a.r, logger)

Tablero_revisar(t, logger) == RevisarVueltas(t, 1, 0, logger)

\* copiar copying the values only: the cells of the copy keep the candidate
\* lists Celda.__init__ gave them
Tablero_copiar_sin_posibles(t) ==
  [c \in 1..NCeldas |-> [CeldaNueva EXCEPT !.valor = t[c].valor]]

\* Tablero.copiar
Tablero_copiar(t) ==
  [c \in 1..NCeldas |-> [CeldaNueva EXCEPT !.valor = t[c].valor, !.posible = t[c].posible]]

\* replicar copying the values only
Tablero_replicar_sin_posibles(self, tablero) ==
  [c \in 1..NCeldas |-> [self[c] EXCEPT !.valor = tablero[c].valor]]

\* Tablero.replicar
Tablero_replicar(self, tablero) ==
  [c \in 1..NCeldas |-> [self[c] EXCEPT !.valor = tablero[c].valor,
                                        !.posible = tablero[c].posible]]

\* Tablero.completo
Tablero_completo(t) == \A c \in 1..NCeldas : ~ vacia(t, c)

\* Tablero.valido
Tablero_valido(t) ==
  /\ \A c \in 1..NCeldas : ~ (vacia(t, c) /\ t[c].posible = << >>)
  /\ \A n \in 1..Len(Grupos) : \A i, j \in 1..SIZE :
        (i < j /\ ~ vacia(t, Grupos[n][i]) /\ ~ vacia(t, Grupos[n][j]))
           => t[Grupos[n][i]].valor # t[Grupos[n][j]].valor

\* Tablero.verificar
Tablero_verificar(t) == \A n \in 1..Len(Grupos) : Grupo_verificar(t, Grupos[n])

\* the cell selection of Tablero.resolver: the loop keeps the first cell, in
\* index order, among the empty cells with 0 < len(posible) < SIZE + 1 that
\* have the fewest candidates (the test is a strict <); None (0) when there
\* is no such cell
Elegible(t, c) == vacia(t, c) /\ 0 < Len(t[c].posible) /\ Len(t[c].posible) < SIZE + 1

ElegirCelda(t) ==
  IF \A c \in 1..NCeldas : ~ Elegible(t, c) THEN None
  ELSE CHOOSE c \in 1..NCeldas :
         /\ Elegible(t, c)
         /\ \A d \in 1..NCeldas : Elegible(t, d) =>
               \/ Len(t[c].posible) < Len(t[d].posible)
               \/ (Len(t[c].posible) = Len(t[d].posible) /\ c <= d)

----------------------------------------------------------------------------
(* The boards main() can be given.                                         *)

\* main(), "trivial": a complete grid
Trivial ==
  << << 1, 2, 3, 4, 5, 6, 7, 8, 9 >>,
     << 4, 5, 6, 7, 8, 9, 1, 2, 3 >>,
     << 7, 8, 9, 1, 2, 3, 4, 5, 6 >>,
     << 2, 3, 4, 5, 6, 7, 8, 9, 1 >>,
     << 5, 6, 7, 8, 9, 1, 2, 3, 4 >>,
     << 8, 9, 1, 2, 3, 4, 5, 6, 7 >>,
     << 3, 4, 5, 6, 7, 8, 9, 1, 2 >>,
     << 6, 7, 8, 9, 1, 2, 3, 4, 5 >>,
     << 9, 1, 2, 3, 4, 5, 6, 7, 8 >> >>

\* main(), "Basico"
Basico ==
  << << 0, 0, 0, 0, 5, 0, 0, 0, 9 >>,
     << 0, 0, 0, 3, 0, 0, 8, 4, 0 >>,
     << 4, 3, 0, 1, 8, 7, 0, 6, 0 >>,
     << 3, 0, 8, 0, 0, 0, 0, 7, 0 >>,
     << 0, 0, 0, 4, 3, 2, 0, 0, 0 >>,
     << 0, 5, 0, 0, 0, 0, 9, 0, 2 >>,
     << 0, 4, 0, 2, 1, 0, 0, 9, 8 >>,
     << 0, 9, 3, 0, 0, 8, 0, 0, 0 >>,
     << 7, 0, 0, 0, 9, 0, 0, 0, 0 >> >>

\* main(), "Otros"
Otros ==
  << << 8, 0, 0, 0, 0, 4, 0, 0, 6 >>,
     << 2, 0, 0, 0, 5, 0, 1, 0, 0 >>,
     << 9, 0, 0, 7, 0, 0, 0, 3, 0 >>,
     << 5, 0, 0, 0, 0, 0, 0, 0, 9 >>,
     << 0, 0, 0, 4, 0, 2, 0, 0, 0 >>,
     << 1, 0, 0, 0, 0, 0, 0, 0, 8 >>,
     << 0, 8, 0, 0, 0, 6, 0, 0, 2 >>,
     << 0, 0, 7, 0, 3, 0, 0, 0, 5 >>,
     << 4, 0, 0, 9, 0, 0, 0, 0, 1 >> >>

\* main(), "Avanzado"
Avanzado ==
  << << 1, 0, 0, 9, 4, 0, 3, 0, 0 >>,
     << 0, 0, 0, 0, 0, 8, 1, 0, 6 >>,
     << 9, 0, 0, 0, 0, 0, 0, 2, 0 >>,
     << 0, 7, 0, 1, 0, 4, 0, 0, 9 >>,
     << 6, 0, 4, 0, 9, 0, 7, 0, 1 >>,
     << 3, 0, 0, 6, 0, 7, 0, 4, 0 >>,
     << 0, 9, 0, 0, 0, 0, 0, 0, 4 >>,
     << 2, 0, 1, 4, 0, 0, 0, 0, 0 >>,
     << 0, 0, 3, 0, 7, 6, 0, 0, 8 >> >>

\* main(), "Prueba", the board in force
Prueba ==
  << << 8, 4, 0, 0, 0, 7, 3, 0, 1 >>,
     << 0, 0, 0, 0, 5, 0, 0, 8, 0 >>,
     << 0, 0, 9, 0, 3, 0, 7, 0, 0 >>,
     << 0, 0, 6, 0, 0, 3, 0, 0, 4 >>,
     << 4, 0, 0, 7, 0, 0, 0, 0, 0 >>,
     << 0, 0, 1, 0, 0, 8, 0, 0, 3 >>,
     << 0, 0, 7, 0, 1, 0, 4, 0, 0 >>,
     << 0, 0, 0, 0, 8, 0, 0, 2, 0 >>,
     << 1, 6, 0, 0, 0, 2, 5, 0, 8 >> >>

\* main(), "el sudoku mas dificil del mundo 9x9"
MasDificil ==
  << << 8, 0, 0, 0, 0, 0, 0, 0, 0 >>,
     << 0, 0, 3, 6, 0, 0, 0, 0, 0 >>,
     << 0, 7, 0, 0, 9, 0, 2, 0, 0 >>,
     << 0, 5, 0, 0, 0, 7, 0, 0, 0 >>,
     << 0, 0, 0, 0, 4, 5, 7, 0, 0 >>,
     << 0, 0, 0, 1, 0, 0, 0, 3, 0 >>,
     << 0, 0, 1, 0, 0, 0, 0, 6, 8 >>,
     << 0, 0, 8, 5, 0, 0, 0, 1, 0 >>,
     << 0, 9, 0, 0, 0, 0, 4, 0, 0 >> >>

\* main(), "Intermedio"
Intermedio ==
  << << 0, 4, 3, 0, 2, 0, 8, 0, 0 >>,
     << 7, 9, 0, 0, 5, 4, 0, 0, 0 >>,
     << 0, 0, 0, 0, 0, 0, 0, 0, 9 >>,
     << 0, 0, 0, 6, 0, 0, 9, 0, 7 >>,
     << 0, 0, 0, 5, 0, 8, 0, 0, 0 >>,
     << 1, 0, 7, 0, 0, 2, 0, 0, 0 >>,
     << 3, 0, 0, 0, 0, 0, 0, 0, 0 >>,
     << 0, 0, 0, 4, 6, 0, 0, 9, 1 >>,
     << 0, 0, 5, 0, 8, 0, 7, 2, 0 >> >>

\* main(), "websudoku evil"
Evil ==
  << << 0, 9, 0, 0, 4, 6, 0, 0, 3 >>,
     << 0, 8, 0, 0, 7, 0, 0, 0, 0 >>,
     << 1, 0, 0, 0, 0, 0, 2, 0, 0 >>,
     << 0, 0, 1, 0, 0, 7, 0, 0, 5 >>,
     << 0, 0, 3, 0, 2, 0, 6, 0, 0 >>,
     << 7, 0, 0, 9, 0, 0, 1, 0, 0 >>,
     << 0, 0, 9, 0, 0, 0, 0, 0, 4 >>,
     << 0, 0, 0, 0, 3, 0, 0, 2, 0 >>,
     << 2, 0, 0, 5, 8, 0, 0, 7, 0 >> >>

\* main(), "scargot"
Scargot ==
  << << 1, 0, 0, 0, 0, 7, 0, 9, 0 >>,
     << 0, 3, 0, 0, 2, 0, 0, 0, 8 >>,
     << 0, 0, 9, 6, 0, 0, 5, 0, 0 >>,
     << 0, 0, 5, 3, 0, 0, 9, 0, 0 >>,
     << 0, 1, 0, 0, 8, 0, 0, 0, 2 >>,
     << 6, 0, 0, 0, 0, 4, 0, 0, 0 >>,
     << 3, 0, 0, 0, 0, 0, 0, 1, 0 >>,
     << 0, 4, 0, 0, 0, 0, 0, 0, 7 >>,
     << 0, 0, 7, 0, 0, 0, 3, 0, 0 >> >>

\* main(), "ejemplo web"
EjemploWeb ==
  << << 0, 0, 0, 0, 0, 0, 2, 0, 0 >>,
     << 0, 5, 8, 0, 0, 6, 0, 0, 0 >>,
     << 0, 0, 0, 3, 0, 0, 0, 8, 5 >>,
     << 0, 1, 0, 4, 7, 0, 6, 0, 0 >>,
     << 9, 0, 6, 0, 0, 0, 5, 0, 7 >>,
     << 0, 0, 7, 0, 3, 9, 0, 4, 0 >>,
     << 7, 6, 0, 0, 0, 8, 0, 0, 0 >>,
     << 0, 0, 0, 9, 0, 0, 8, 1, 0 >>,
     << 0, 0, 9, 0, 0, 0, 0, 0, 0 >> >>

\* main(), "Imposible"
Imposible ==
  << << 0, 0, 0, 4, 0, 3, 8, 0, 0 >>,
     << 5, 0, 0, 0, 9, 0, 0, 0, 0 >>,
     << 0, 8, 6, 0, 0, 0, 0, 0, 7 >>,
     << 0, 0, 5, 2, 0, 0, 0, 8, 4 >>,
     << 0, 2, 1, 0, 0, 0, 0, 5, 0 >>,
     << 0, 0, 0, 0, 0, 0, 7, 0, 9 >>,
     << 1, 5, 0, 7, 0, 0, 9, 0, 8 >>,
     << 4, 9, 0, 0, 1, 0, 2, 0, 0 >>,
     << 0, 0, 0, 0, 0, 0, 0, 7, 1 >> >>

\* some cells of the trivial grid: the search backtracks once, then succeeds
Retroceso ==
  << << 0, 2, 0, 0, 0, 0, 0, 8, 0 >>,
     << 0, 0, 0, 7, 8, 9, 1, 2, 3 >>,
     << 0, 8, 9, 0, 2, 0, 0, 0, 6 >>,
     << 0, 3, 4, 5, 6, 0, 8, 0, 0 >>,
     << 0, 0, 7, 0, 0, 0, 0, 3, 0 >>,
     << 8, 0, 0, 0, 0, 0, 0, 6, 7 >>,
     << 0, 0, 0, 6, 0, 8, 0, 1, 0 >>,
     << 6, 7, 0, 9, 0, 2, 0, 4, 0 >>,
     << 0, 1, 0, 3, 4, 0, 6, 0, 8 >> >>

\* some cells of the trivial grid, which is its only completion: the search
\* backtracks and succeeds
UnicaRetroceso ==
  << << 0, 0, 0, 4, 5, 0, 0, 0, 9 >>,
     << 4, 0, 0, 0, 0, 9, 0, 0, 3 >>,
     << 0, 8, 0, 1, 2, 0, 0, 0, 0 >>,
     << 2, 0, 0, 5, 6, 0, 0, 9, 1 >>,
     << 0, 6, 7, 0, 9, 1, 0, 0, 0 >>,
     << 8, 9, 0, 0, 0, 0, 0, 0, 0 >>,
     << 0, 4, 0, 0, 7, 0, 0, 0, 2 >>,
     << 0, 0, 0, 9, 1, 0, 3, 0, 5 >>,
     << 9, 0, 0, 0, 0, 5, 0, 7, 8 >> >>

\* cells of the trivial grid and one other value, no completion: every
\* candidate of the chosen cell fails
Agotada ==
  << << 1, 0, 3, 0, 5, 0, 7, 0, 0 >>,
     << 0, 0, 6, 7, 0, 0, 0, 0, 0 >>,
     << 7, 0, 0, 1, 0, 0, 0, 0, 0 >>,
     << 0, 0, 4, 5, 6, 7, 0, 0, 0 >>,
     << 0, 0, 0, 0, 0, 0, 0, 3, 4 >>,
     << 8, 0, 1, 2, 0, 0, 0, 5, 7 >>,
     << 3, 0, 0, 6, 7, 8, 0, 0, 2 >>,
     << 6, 7, 8, 0, 0, 0, 3, 0, 0 >>,
     << 0, 1, 2, 3, 0, 5, 6, 7, 0 >> >>

\* cells of the trivial grid and one other value, no two equal values in a
\* group: the cascades of the load leave a value twice in a group
Duplicada ==
  << << 0, 2, 3, 4, 0, 6, 7, 8, 0 >>,
     << 4, 0, 6, 5, 8, 0, 1, 0, 3 >>,
     << 0, 0, 0, 0, 0, 3, 4, 0, 6 >>,
     << 2, 0, 4, 0, 6, 0, 0, 9, 0 >>,
     << 0, 0, 0, 0, 0, 0, 0, 3, 0 >>,
     << 8, 0, 0, 2, 0, 0, 0, 0, 0 >>,
     << 0, 0, 5, 6, 0, 0, 0, 0, 0 >>,
     << 0, 0, 0, 9, 0, 0, 0, 0, 5 >>,
     << 0, 1, 2, 3, 0, 5, 6, 7, 0 >> >>

\* cells of the trivial grid and one other value, no two equal values in a
\* group: the propagation fills the board with a value twice in a group
LlenaMal ==
  << << 0, 0, 0, 4, 5, 6, 7, 0, 0 >>,
     << 0, 0, 0, 0, 8, 0, 0, 0, 3 >>,
     << 7, 0, 1, 0, 0, 3, 4, 5, 0 >>,
     << 0, 3, 4, 0, 0, 0, 8, 0, 0 >>,
     << 0, 0, 0, 0, 9, 0, 0, 3, 0 >>,
     << 0, 0, 0, 2, 0, 4, 0, 0, 0 >>,
     << 0, 4, 0, 6, 0, 0, 9, 1, 0 >>,
     << 0, 0, 0, 0, 0, 2, 3, 0, 0 >>,
     << 0, 0, 2, 0, 4, 5, 0, 0, 0 >> >>

\* cells of the trivial grid and one other value, no two equal values in a
\* group: the load rejects a value
Rechazada ==
  << << 1, 0, 3, 4, 0, 0, 7, 0, 0 >>,
     << 4, 5, 0, 0, 8, 0, 0, 0, 3 >>,
     << 7, 8, 9, 0, 2, 3, 4, 0, 0 >>,
     << 0, 3, 4, 0, 6, 7, 0, 9, 1 >>,
     << 5, 6, 0, 0, 0, 1, 2, 3, 4 >>,
     << 0, 0, 0, 2, 0, 0, 5, 0, 0 >>,
     << 0, 0, 0, 0, 7, 8, 0, 1, 0 >>,
     << 6, 7, 0, 0, 0, 0, 0, 0, 0 >>,
     << 0, 0, 0, 0, 0, 9, 6, 7, 0 >> >>

\* a grid with the same value twice in a group that the load accepts
MalArmada ==
  << << 1, 0, 0, 4, 5, 0, 7, 8, 9 >>,
     << 4, 0, 0, 7, 8, 0, 0, 2, 0 >>,
     << 0, 0, 0, 0, 2, 0, 0, 0, 0 >>,
     << 2, 3, 4, 0, 6, 0, 0, 9, 0 >>,
     << 0, 6, 7, 0, 0, 0, 0, 3, 4 >>,
     << 0, 9, 1, 0, 3, 4, 5, 6, 7 >>,
     << 3, 0, 5, 0, 7, 0, 0, 1, 0 >>,
     << 0, 7, 9, 0, 0, 2, 0, 4, 5 >>,
     << 9, 1, 0, 3, 4, 5, 6, 0, 0 >> >>

\* the trivial grid with the first value repeated in the first row
MalRechazada ==
  << << 1, 1, 3, 4, 5, 6, 7, 8, 9 >>,
     << 4, 5, 6, 7, 8, 9, 1, 2, 3 >>,
     << 7, 8, 9, 1, 2, 3, 4, 5, 6 >>,
     << 2, 3, 4, 5, 6, 7, 8, 9, 1 >>,
     << 5, 6, 7, 8, 9, 1, 2, 3, 4 >>,
     << 8, 9, 1, 2, 3, 4, 5, 6, 7 >>,
     << 3, 4, 5, 6, 7, 8, 9, 1, 2 >>,
     << 6, 7, 8, 9, 1, 2, 3, 4, 5 >>,
     << 9, 1, 2, 3, 4, 5, 6, 7, 8 >> >>

Cargas ==
  { Trivial, Basico, Otros, Avanzado, Prueba,
    MasDificil, Intermedio, Evil, Scargot, EjemploWeb, Imposible,
    Retroceso, UnicaRetroceso, Agotada, Duplicada, LlenaMal,
    Rechazada, MalArmada, MalRechazada }

----------------------------------------------------------------------------
(* The program: main() builds a Tablero, loads `carga` into it and, when   *)
(* the load succeeds, calls resolver on it.  The recursion of resolver is  *)
(* the stack `pila` of its activations; activation number d works on       *)
(* board tableros[d]: tableros[1] is main's `tab`, tableros[d + 1] the     *)
(* `copia` activation d made for the candidate it is trying.               *)

VARIABLES
  carga,     \* the grid given to cargar
  logger,    \* the logger passed to cargar and resolver: PyLogger or PyNone
  pc,        \* where main() is
  tableros,  \* the live boards
  pila,      \* the activations of resolver, the outermost first
  vuelta,    \* Tablero.vuelta
  cambios    \* what resolver returned to main()

vars == << carga, logger, pc, tableros, pila, vuelta, cambios >>

\* the local variables of an activation of resolver
Activacion(estado, cam, celda_index, k, resultado) ==
  [estado |-> estado, cambios |-> cam, celda_index |-> celda_index, k |-> k,
   resultado |-> resultado]

Cima == Len(pila)

Init ==
  /\ carga \in Cargas
  /\ logger \in {PyLogger, PyNone}
  /\ pc = "inicio"
  /\ tableros = << TableroNuevo >>
  /\ pila = << >>
  /\ vuelta = 0
  /\ cambios = 0

\* main: tab.cargar(carga, logger=logger)
Cargar ==
  /\ pc = "inicio"
  /\ \E r \in { Tablero_cargar(tableros[1], carga, logger) } :
       /\ tableros' = << r.t >>
       /\ pc' = IF r.r THEN "cargado" ELSE "mal_armado"
  /\ UNCHANGED << carga, logger, pila, vuelta, cambios >>

\* main: the call tab.resolver(logger=logger)
Llamar ==
  /\ pc = "cargado"
  /\ pc' = "resolviendo"
  /\ pila' = << Activacion("entrar", 0, None, 0, 0) >>
  /\ UNCHANGED << carga, logger, tableros, vuelta, cambios >>

\* resolver, from its first line to the for loop: the validity test, the
\* propagation, the solved test and the choice of the cell.  Indexing
\* self.celdas with None raises TypeError, which nothing catches.
Entrar ==
  /\ pc = "resolviendo"
  /\ pila[Cima].estado = "entrar"
  /\ IF ~ Tablero_valido(tableros[Cima])
     THEN /\ pila' = [pila EXCEPT ![Cima] = Activacion("volver", 0, None, 0, 0)]
          /\ UNCHANGED << tableros, pc >>
     ELSE \E rev \in { Tablero_revisar(tableros[Cima], logger) } :
          \E celda_index \in { ElegirCelda(rev.t) } :
              /\ tableros' = [tableros EXCEPT ![Cima] = rev.t]
              /\ IF Tablero_verificar(rev.t)
                 THEN /\ pila' = [pila EXCEPT ![Cima] =
                                    Activacion("volver", rev.r, None, 0, rev.r)]
                      /\ pc' = pc
                 ELSE IF celda_index = None
                 THEN /\ pc' = "TypeError"
                      /\ pila' = [pila EXCEPT ![Cima] =
                                    Activacion("error", rev.r, None, 0, 0)]
                 ELSE /\ pila' = [pila EXCEPT ![Cima] =
                                    Activacion("probar", rev.r, celda_index, 1, 0)]
                      /\ pc' = pc
  /\ UNCHANGED << carga, logger, vuelta, cambios >>

\* resolver, one turn of the for loop up to the recursive call: the copy, the
\* assignment of the candidate to the copy's cell (the call passes logger as
\* `original`), Tablero.vuelta += 1 and the call copia.resolver
Probar ==
  /\ pc = "resolviendo"
  /\ pila[Cima].estado = "probar"
  /\ pila[Cima].k <= Len(tableros[Cima][pila[Cima].celda_index].posible)
  /\ \E s \in { Celda_setvalor(Tablero_copiar(tableros[Cima]), pila[Cima].celda_index,
                                 tableros[Cima][pila[Cima].celda_index].posible[pila[Cima].k],
                                 logger, PyNone) } :
       IF s.r
       THEN /\ vuelta' = vuelta + 1
            /\ tableros' = Append(tableros, s.t)
            /\ pila' = Append(pila, Activacion("entrar", 0, None, 0, 0))
       ELSE /\ pila' = [pila EXCEPT ![Cima].k = pila[Cima].k + 1]
            /\ UNCHANGED << tableros, vuelta >>
  /\ UNCHANGED << carga, logger, pc, cambios >>

\* Volver without `Tablero.vuelta -= 1`
Volver_sin_decremento ==
  /\ pc = "resolviendo"
  /\ Len(pila) >= 2
  /\ pila[Len(pila)].estado = "volver"
  /\ LET copia == tableros[Len(pila)]
         resultado == pila[Len(pila)].resultado
         d == Len(pila) - 1
     IN  /\ vuelta' = vuelta
         /\ IF Tablero_verificar(copia)
            THEN /\ tableros' = [SubSeq(tableros, 1, d) EXCEPT
                                   ![d] = Tablero_replicar(tableros[d], copia)]
                 /\ pila' = [SubSeq(pila, 1, d) EXCEPT
                               ![d].estado = "volver",
                               ![d].resultado = pila[d].cambios + resultado]
            ELSE /\ tableros' = SubSeq(tableros, 1, d)
                 /\ pila' = [SubSeq(pila, 1, d) EXCEPT ![d].k = pila[d].k + 1]
  /\ UNCHANGED << carga, logger, pc, cambios >>

\* resolver, after the recursive call returned: Tablero.vuelta -= 1, then
\* either the copy is solved, is replicated into self and resolver returns,
\* or the loop goes on to the next candidate
Volver ==
  /\ pc = "resolviendo"
  /\ Cima >= 2
  /\ pila[Cima].estado = "volver"
  /\ LET copia == tableros[Cima]
         resultado == pila[Cima].resultado
         d == Cima - 1
     IN  /\ vuelta' = vuelta - 1
         /\ IF Tablero_verificar(copia)
            THEN /\ tableros' = [SubSeq(tableros, 1, d) EXCEPT
                                   ![d] = Tablero_replicar(tableros[d], copia)]
                 /\ pila' = [SubSeq(pila, 1, d) EXCEPT
                               ![d].estado = "volver",
                               ![d].resultado = pila[d].cambios + resultado]
            ELSE /\ tableros' = SubSeq(tableros, 1, d)
                 /\ pila' = [SubSeq(pila, 1, d) EXCEPT ![d].k = pila[d].k + 1]
  /\ UNCHANGED << carga, logger, pc, cambios >>

\* resolver, the for loop is over: return cambios
Agotar ==
  /\ pc = "resolviendo"
  /\ pila[Cima].estado = "probar"
  /\ pila[Cima].k > Len(tableros[Cima][pila[Cima].celda_index].posible)
  /\ pila' = [pila EXCEPT ![Cima].estado = "volver",
                          ![Cima].resultado = pila[Cima].cambios]
  /\ UNCHANGED << carga, logger, pc, tableros, vuelta, cambios >>

\* main: resolver returned
Terminar ==
  /\ pc = "resolviendo"
  /\ Cima = 1
  /\ pila[1].estado = "volver"
  /\ pc' = "fin"
  /\ cambios' = pila[1].resultado
  /\ pila' = << >>
  /\ UNCHANGED << carga, logger, tableros, vuelta >>

Next ==
  \/ Cargar
  \/ Llamar
  \/ Entrar
  \/ Probar
  \/ Volver
  \/ Agotar
  \/ Terminar

Spec == Init /\ [][Next]_vars

----------------------------------------------------------------------------
(* What the properties speak of.  A grid is read cell by cell; the         *)
(* completions of a grid are counted by a search of its own, which knows   *)
(* nothing of Celda, Grupo or Tablero: it fills the empty cell with the    *)
(* fewest legal values, in increasing order, and backs up.                 *)

\* the entry of a grid for cell c
Entrada(G, c) == G[FilaDe(c) + 1][ColumnaDe(c) + 1]

\* the other cells of the row, the column and the box of a cell
Vecinas ==
  [c \in 1..NCeldas |->
     (Range(GruposDe[c][1]) \cup Range(GruposDe[c][2]) \cup Range(GruposDe[c][3])) \ {c}]

\* two cells of a row, a column or a box of the grid hold the same value
MalFormada(G) ==
  \E c \in 1..NCeldas : \E p \in Vecinas[c] : Entrada(G, c) # 0 /\ Entrada(G, c) = Entrada(G, p)

\* the values a cell of the partial filling g can take
Legales(g, c) == {v \in 1..SIZE : \A p \in Vecinas[c] : g[p] # v}

\* one step of the count: going down it fills the next cell or records a
\* completion, going up it takes the next value of the last choice or
\* gives the choice up; it stops at the second completion
Avance(m) ==
  LET vacias == {c \in 1..NCeldas : m.g[c] = 0}
      cuantas == [c \in vacias |-> Cardinality(Legales(m.g, c))]
      c == CHOOSE x \in vacias : \A y \in vacias :
             cuantas[x] < cuantas[y] \/ (cuantas[x] = cuantas[y] /\ x <= y)
      vs == SelectSeq([x \in 1..SIZE |-> x], LAMBDA v : v \in Legales(m.g, c))
      n == Len(m.pila)
      f == m.pila[n]
  IN  CASE m.modo = "bajar" /\ vacias = {} ->
             [m EXCEPT !.n = m.n + 1, !.sol = IF m.n = 0 THEN m.g ELSE m.sol,
                       !.modo = "subir"]
        [] m.modo = "bajar" /\ vs = << >> -> [m EXCEPT !.modo = "subir"]
        [] m.modo = "bajar" ->
             [m EXCEPT !.g[c] = vs[1], !.pila = Append(m.pila, [celda |-> c, vs |-> vs, i |-> 1])]
        [] n = 0 \/ m.n >= 2 -> [m EXCEPT !.modo = "fin"]
        [] f.i < Len(f.vs) ->
             [m EXCEPT !.g[f.celda] = f.vs[f.i + 1], !.pila[n].i = f.i + 1, !.modo = "bajar"]
        [] OTHER -> [m EXCEPT !.g[f.celda] = 0, !.pila = SubSeq(m.pila, 1, n - 1)]

\* up to 4^n steps of the count
RECURSIVE Contar(_, _)
Contar(m, n) ==
  LET a == Contar(m, n - 1)
      b == Contar(a, n - 1)
      d == Contar(b, n - 1)
  IN  CASE n = 0 -> Avance(m)
        [] a.modo = "fin" -> a
        [] b.modo = "fin" -> b
        [] d.modo = "fin" -> d
        [] OTHER -> Contar(d, n - 1)

\* the count for grid G: n completions found (2 for two or more), sol the
\* first one; modo is "fin" when the count ended within 4^PasosLog steps
Completaciones(G) ==
  Contar([g |-> [c \in 1..NCeldas |-> Entrada(G, c)], pila |-> << >>, n |-> 0,
          sol |-> << >>, modo |-> "bajar"], PasosLog)

\* the grid has exactly one valid completion
UnaSola(G) ==
  LET r == Completaciones(G)
  IN  ~ MalFormada(G) /\ r.modo = "fin" /\ r.n = 1

\* main() is over: cargar refused the grid, resolver returned, or resolver
\* raised
Terminado == pc \in {"mal_armado", "fin", "TypeError"}

\* the values of the cells of a board
Valores(t) == [c \in 1..NCeldas |-> t[c].valor]

\* the candidate lists of the cells of a board
Posibles(t) == [c \in 1..NCeldas |-> t[c].posible]

\* no row, column or box of the board holds an assigned value twice
SinDuplicados(t) ==
  \A c \in 1..NCeldas : \A p \in Vecinas[c] :
     t[c].valor # None => t[p].valor # t[c].valor

\* no empty cell of the board has a candidate that is the value of a cell of
\* its row, column or box
Consistente(t) ==
  \A c \in 1..NCeldas : \A p \in Vecinas[c] :
     (t[c].valor = None /\ t[p].valor # None) => t[p].valor \notin Range(t[c].posible)

\* every cell has a value of 1..SIZE and every row, column and box holds
\* each value of 1..SIZE exactly once
Resuelto(t) ==
  /\ \A c \in 1..NCeldas : t[c].valor \in 1..SIZE
  /\ \A n \in 1..Len(Grupos) : \A v \in 1..SIZE :
        Cardinality({k \in 1..SIZE : t[Grupos[n][k]].valor = v}) = 1

\* the boards on which a call of resolver has got past its propagation
\* step, or has returned
Revisados == {d \in 1..Len(pila) : pila[d].estado \in {"probar", "volver", "error"}}

----------------------------------------------------------------------------
(* C1 *)

\* C1: completeness.  When main() is over on a grid that has exactly one
\* valid completion, cargar accepted the grid, resolver returned, the
\* top-level board passes Tablero.verificar and every cell holds the value
\* the completion gives it.
C1_Completitud ==
  (Terminado /\ UnaSola(carga)) =>
     /\ pc = "fin"
     /\ Tablero_verificar(tableros[1])
     /\ Valores(tableros[1]) = Completaciones(carga).sol

----------------------------------------------------------------------------
(* C2 *)

\* resolver has returned on board d: to main() for the top-level board, to
\* the activation that made the clone for the others
Vuelto(d) ==
  \/ d = 1 /\ pc = "fin"
  \/ d <= Len(pila) /\ pila[d].estado = "volver"

\* C2: soundness of a solved output.  Whenever resolver has returned on a
\* board that passes Tablero.verificar, every cell of the board has a value
\* of 1..SIZE, every row, column and box holds each value exactly once and
\* every nonzero entry of the grid is the value of its cell; and no step
\* replaces the value a cell of a live board has by another value.
C2_Solidez ==
  /\ [](\A d \in 1..Len(tableros) :
          (Vuelto(d) /\ Tablero_verificar(tableros[d])) =>
             /\ Resuelto(tableros[d])
             /\ \A c \in 1..NCeldas :
                   Entrada(carga, c) # 0 => tableros[d][c].valor = Entrada(carga, c))
  /\ [][\A d \in 1..Len(tableros) : \A c \in 1..NCeldas :
          (d <= Len(tableros') /\ tableros[d][c].valor # None)
             => tableros'[d][c].valor = tableros[d][c].valor]_vars

\* resolver returned to main() with a solved board it had to fill
C2_Testigo ==
  /\ pc = "fin"
  /\ Tablero_verificar(tableros[1])
  /\ cambios > 0
  /\ \E c \in 1..NCeldas : Entrada(carga, c) = 0

----------------------------------------------------------------------------
(* C3 *)

\* C3: no duplicates.  Once cargar has returned True, the top-level board
\* never has two cells of a row, a column or a box with the same value, nor
\* has any board, top-level or clone, on which revisar or resolver has
\* returned.
C3_SinDuplicados ==
  pc \notin {"inicio", "mal_armado"} =>
     /\ SinDuplicados(tableros[1])
     /\ \A d \in Revisados : SinDuplicados(tableros[d])

----------------------------------------------------------------------------
(* C4 *)

----------------------------------------------------------------------------
(* C5 *)

\* C5: malformed input is rejected.  When the grid has the same nonzero
\* value in two cells of a row, a column or a box, cargar returns False and
\* main() stops there: resolver is never called.
C5_Rechazo ==
  (MalFormada(carga) /\ pc # "inicio") => pc = "mal_armado"

----------------------------------------------------------------------------
(* C6 *)

\* C6: idempotence of propagation.  For every board of every state after
\* the load (the blank board of the initial state is left out): when one
\* round of Grupo.revisar over all rows, columns and boxes changes no value
\* and no candidate list, Tablero.revisar returns 0 and leaves the board as
\* it is; and when the round counts no change, which is how a call of
\* Tablero.revisar stops before its last round, the next call of
\* Tablero.revisar returns 0 and leaves the board as it is.
C6_Idempotencia ==
  \A d \in 1..Len(tableros) : pc # "inicio" =>
     LET t == tableros[d]
         a == RevisarGrupos(t, 1, Len(Grupos), logger)
         rev == Tablero_revisar(t, logger)
     IN  /\ (Valores(a.t) = Valores(t) /\ Posibles(a.t) = Posibles(t))
               => (rev.r = 0 /\ rev.t = t)
         /\ a.r = 0 => (rev.r = 0 /\ rev.t = t)

\* resolver's propagation changed the board and stopped at a fixed point
\* that still has empty cells
C6_Testigo ==
  /\ pc = "resolviendo"
  /\ pila[Len(pila)].estado = "probar"
  /\ pila[Len(pila)].cambios > 0
  /\ LET t == tableros[Len(pila)]
         a == RevisarGrupos(t, 1, Len(Grupos), logger)
     IN  Valores(a.t) = Valores(t) /\ Posibles(a.t) = Posibles(t)

----------------------------------------------------------------------------
(* C7 *)

\* C7: Celda.original marks exactly the givens.  After cargar has returned
\* True and after resolver has returned to main(), the attribute original
\* of a cell of the top-level board is truthy if and only if the entry of
\* the grid for the cell is nonzero, with a logger and without one.
C7_Originales ==
  pc \in {"cargado", "fin"} =>
     \A c \in 1..NCeldas :
        Truthy(tableros[1][c].original) <=> Entrada(carga, c) # 0

----------------------------------------------------------------------------
(* C8 *)

\* C8: resolver never raises.  No call of resolver, top-level or recursive,
\* ends in an exception, and whenever a call has got past its propagation
\* step with a board that is not solved, the index its selection loop chose
\* is the index of a cell, not None.
C8_SinExcepcion ==
  /\ pc # "TypeError"
  /\ \A d \in 1..Len(pila) :
        pila[d].estado \in {"probar", "error"} => pila[d].celda_index # None

----------------------------------------------------------------------------
(* C9 *)

\* C9: the first solution wins and is replicated upward.  From the moment a
\* board passes Tablero.verificar, every step keeps its values and its
\* candidate lists in the innermost live board, which stays solved, and makes
\* no new clone; the step after resolver has returned on a solved clone
\* gives the caller's board the clone's values and candidate lists and makes
\* the caller return, with its own count plus the clone's, without moving on
\* to another candidate.  So the board main() is left with is that first
\* solved board.
C9_PrimeraSolucion ==
  [][\A d \in 1..Len(tableros) : Tablero_verificar(tableros[d]) =>
        LET u == Len(tableros')
        IN  /\ d = Len(tableros)
            /\ u <= d
            /\ Valores(tableros'[u]) = Valores(tableros[d])
            /\ Posibles(tableros'[u]) = Posibles(tableros[d])
            /\ Tablero_verificar(tableros'[u])
            /\ (pc' = "resolviendo" => pila'[u].estado \in {"entrar", "volver"})
            /\ (pc = "resolviendo" /\ d >= 2 /\ pila[d].estado = "volver") =>
                  /\ u = d - 1
                  /\ pila'[u].estado = "volver"
                  /\ pila'[u].k = pila[u].k
                  /\ pila'[u].resultado = pila[u].cambios + pila[d].resultado
    ]_vars

\* the top-level call of resolver is returning a board that a clone solved
\* and replicar copied into it
C9_Testigo ==
  /\ pc = "resolviendo"
  /\ Len(pila) = 1
  /\ pila[1].estado = "volver"
  /\ pila[1].celda_index # None
  /\ Tablero_verificar(tableros[1])

----------------------------------------------------------------------------
(* C10 *)

\* C10: failed branches leave no trace.  A copy made by Tablero.copiar has
\* the values and the candidate lists of its source, and a live clone only
\* ever adds to what its source has: it keeps the source's values and its
\* candidates are among the source's.  No step changes the board of a call of
\* resolver that is past its propagation step, whatever is done to the
\* clones above it, except the step that replicates a solved clone into it;
\* so a call that has run out of candidates returns its board as its own
\* propagation left it.
C10_SinRastro ==
  /\ [](/\ \A d \in 1..Len(tableros) :
             /\ Valores(Tablero_copiar(tableros[d])) = Valores(tableros[d])
             /\ Posibles(Tablero_copiar(tableros[d])) = Posibles(tableros[d])
        /\ \A d \in 1..(Len(tableros) - 1) : \A c \in 1..NCeldas :
             /\ tableros[d][c].valor # None
                   => tableros[d + 1][c].valor = tableros[d][c].valor
             /\ Range(tableros[d + 1][c].posible) \subseteq Range(tableros[d][c].posible))
  /\ [][\A d \in 1..Len(pila) :
          (pila[d].estado \in {"probar", "volver"} /\ d <= Len(tableros')) =>
             \/ tableros'[d] = tableros[d]
             \/ /\ d = Len(pila) - 1
                /\ pila[d + 1].estado = "volver"
                /\ Tablero_verificar(tableros[d + 1])
                /\ pila[d].estado = "probar"
                /\ pila'[d].estado = "volver"
    ]_vars

\* a call of resolver has tried every candidate of its cell, none led to a
\* solved clone, and it is returning
C10_Testigo ==
  \E d \in 1..Len(pila) :
     /\ pila[d].estado = "volver"
     /\ pila[d].celda_index # None
     /\ pila[d].k > Len(tableros[d][pila[d].celda_index].posible)
     /\ ~ Tablero_verificar(tableros[d])

----------------------------------------------------------------------------
(* C11 *)

\* the number of empty cells of a board
Vacias(t) == Cardinality({c \in 1..NCeldas : vacia(t, c)})

\* the number of empty cells of the board cargar leaves, which is the board
\* main() calls resolver on
VaciasAlLlamar == Vacias(Tablero_cargar(TableroNuevo, carga, logger).t)

\* how far main() and each call of resolver have got: the position of
\* main(), then for each call, the outermost first, the turn of its loop
\* over the candidates and its position around the loop
Medida ==
  << CASE pc = "inicio" -> 0 [] pc = "cargado" -> 1 [] pc = "resolviendo" -> 2
       [] OTHER -> 3 >>
  \o [d \in 1..Len(pila) |->
        4 * pila[d].k + (CASE pila[d].estado = "entrar" -> 0
                           [] pila[d].estado = "probar" -> 1
                           [] pila[d].estado = "volver" -> 2
                           [] OTHER -> 3)]

\* s comes before t in the dictionary order, a sequence coming before its
\* extensions
Antes(s, t) ==
  \E i \in 1..Len(t) :
     /\ i <= Len(s) + 1
     /\ \A j \in 1..(i - 1) : s[j] = t[j]
     /\ (i = Len(s) + 1 \/ s[i] < t[i])

\* main() has a step to take: the conditions under which its statements
\* and those of resolver run
Puede ==
  \/ pc \in {"inicio", "cargado"}
  \/ /\ pc = "resolviendo"
     /\ Len(pila) >= 1
     /\ pila[Len(pila)].estado \in {"entrar", "probar", "volver"}

\* C11: termination and depth bound.  Every step moves main() and the calls
\* of resolver forward in an order that has no infinite ascent (the loop of
\* a call has at most SIZE turns, the calls are at most as deep as there
\* were empty cells), and main() always has a step to take until cargar has
\* refused the grid or the top-level call of resolver is over; every
\* setvalor resolver could make on its innermost board comes back.  While
\* resolver runs, Tablero.vuelta is the depth of the innermost call (its
\* argument profundidad, the number of calls above it) and is at most the
\* number of cells that were empty when the top-level call was made; when
\* the top-level call has returned, Tablero.vuelta is 0.
C11_Terminacion ==
  /\ [][Antes(Medida, Medida')]_vars
  /\ [](/\ Terminado \/ Puede
        /\ \A d \in 1..Len(pila) : pila[d].k <= SIZE + 1
        /\ \A c \in 1..NCeldas : \A k \in 1..Len(tableros[Len(tableros)][c].posible) :
              LET t == tableros[Len(tableros)]
                  v == t[c].posible[k]
              IN  vacia(t, c) =>
                     Correr([t |-> Asignada(t, c, v, logger),
                             pila |-> << Llamada(c, v, PyNone) >>], PasosLog).pila = << >>
        /\ pc \in {"resolviendo", "TypeError"} =>
              /\ vuelta = Len(pila) - 1
              /\ vuelta <= VaciasAlLlamar
        /\ pc = "fin" => vuelta = 0)

\* a call of resolver two levels below the top-level one is running
C11_Testigo ==
  /\ pc = "resolviendo"
  /\ Len(pila) >= 3
  /\ vuelta >= 2

----------------------------------------------------------------------------
(* C12 *)

\* What the counts would be if each call that changes nothing added nothing:
\* the loops of Grupo.asignar and Grupo.revisar, making the same calls on the
\* same boards, adding 1 for a call of Celda.quitar when the cell is empty
\* and has the value among its candidates (the call removes it) and 1 for a
\* call of Celda.setvalor when it returns True (the call assigns the cell).
RECURSIVE QuitadosResto(_, _, _, _, _, _)
QuitadosResto(t, c, resto, lo, hi, lg) ==
  LET d == Tercio(lo, hi)
      a == QuitadosResto(t, c, resto, lo, lo + d - 1, lg)
      b == QuitadosResto(a.t, c, resto, lo + d, lo + 2 * d - 1, lg)
      e == QuitadosResto(b.t, c, resto, lo + 2 * d, hi, lg)
  IN  CASE lo > hi -> [t |-> t, r |-> 0]
        [] lo = hi ->
             [t |-> Celda_quitar(t, c, resto[lo], lg).t,
              r |-> BoolInt(vacia(t, c) /\ resto[lo] \in Range(t[c].posible))]
        [] OTHER -> [r |-> a.r + b.r + e.r, t |-> e.t]

RECURSIVE QuitadosEntre(_, _, _, _, _, _, _)
QuitadosEntre(t, g, lo, hi, comb, resto, lg) ==
  LET d == Tercio(lo, hi)
      a == QuitadosEntre(t, g, lo, lo + d - 1, comb, resto, lg)
      b == QuitadosEntre(a.t, g, lo + d, lo + 2 * d - 1, comb, resto, lg)
      e == QuitadosEntre(b.t, g, lo + 2 * d, hi, comb, resto, lg)
  IN  CASE lo > hi -> [t |-> t, r |-> 0]
        [] lo = hi ->
             IF vacia(t, g[lo]) /\ Celda_incluye(t, g[lo], comb)
             THEN QuitadosResto(t, g[lo], resto, 1, Len(resto), lg)
             ELSE [t |-> t, r |-> 0]
        [] OTHER -> [r |-> a.r + b.r + e.r, t |-> e.t]

Quitados(t, g, comb, lg) ==
  QuitadosEntre(t, g, 1, Len(g), comb,
                SelectSeq([x \in 1..SIZE |-> x], LAMBDA i : i \notin Range(comb)),
                lg)

RECURSIVE CambiosValores(_, _, _, _, _, _, _)
CambiosValores(t, g, celda1, vals, lo, hi, lg) ==
  LET d == Tercio(lo, hi)
      a == CambiosValores(t, g, celda1, vals, lo, lo + d - 1, lg)
      b == CambiosValores(a.t, g, celda1, vals, lo + d, lo + 2 * d - 1, lg)
      e == CambiosValores(b.t, g, celda1, vals, lo + 2 * d, hi, lg)
  IN  CASE lo > hi -> [t |-> t, r |-> 0]
        [] lo = hi ->
             IF Grupo_incluye(t, g, << vals[lo] >>) = 1
             THEN LET s == Celda_setvalor(t, celda1, vals[lo], lg, PyNone)
                  IN  [t |-> s.t, r |-> BoolInt(s.r)]
             ELSE [t |-> t, r |-> 0]
        [] OTHER -> [r |-> a.r + b.r + e.r, t |-> e.t]

RECURSIVE CambiosUnicos(_, _, _, _, _)
CambiosUnicos(t, g, lo, hi, lg) ==
  LET d == Tercio(lo, hi)
      a == CambiosUnicos(t, g, lo, lo + d - 1, lg)
      b == CambiosUnicos(a.t, g, lo + d, lo + 2 * d - 1, lg)
      e == CambiosUnicos(b.t, g, lo + 2 * d, hi, lg)
  IN  CASE lo > hi -> [t |-> t, r |-> 0]
        [] lo = hi ->
             IF vacia(t, g[lo])
             THEN CambiosValores(t, g, g[lo], t[g[lo]].posible, 1, Len(t[g[lo]].posible), lg)
             ELSE [t |-> t, r |-> 0]
        [] OTHER -> [r |-> a.r + b.r + e.r, t |-> e.t]

RECURSIVE CambiosCombs(_, _, _, _, _, _, _)
CambiosCombs(t, g, combs, lo, hi, largo, lg) ==
  LET d == Tercio(lo, hi)
      a == CambiosCombs(t, g, combs, lo, lo + d - 1, largo, lg)
      b == CambiosCombs(a.t, g, combs, lo + d, lo + 2 * d - 1, largo, lg)
      e == CambiosCombs(b.t, g, combs, lo + 2 * d, hi, largo, lg)
  IN  CASE lo > hi -> [t |-> t, r |-> 0]
        [] lo = hi ->
             IF /\ Grupo_incluye(t, g, combs[lo]) = largo
                /\ largo = Len(combs[lo])
                /\ Grupo_incluye_unit(t, g, combs[lo]) = 0
             THEN Quitados(t, g, combs[lo], lg)
             ELSE [t |-> t, r |-> 0]
        [] OTHER -> [r |-> a.r + b.r + e.r, t |-> e.t]

RECURSIVE CambiosLargos(_, _, _, _, _, _)
CambiosLargos(t, g, celda, lo, hi, lg) ==
  LET d == Tercio(lo, hi)
      a == CambiosLargos(t, g, celda, lo, lo + d - 1, lg)
      b == CambiosLargos(a.t, g, celda, lo + d, lo + 2 * d - 1, lg)
      e == CambiosLargos(b.t, g, celda, lo + 2 * d, hi, lg)
  IN  CASE lo > hi -> [t |-> t, r |-> 0]
        [] lo = hi ->
             LET combs == combinations(t[celda].posible, lo)
             IN  IF combs = << >> THEN [r |-> 0, t |-> t]
                 ELSE CambiosCombs(t, g, combs, 1, Len(combs), lo, lg)
        [] OTHER -> [r |-> a.r + b.r + e.r, t |-> e.t]

RECURSIVE CambiosSubconjuntos(_, _, _, _, _)
CambiosSubconjuntos(t, g, lo, hi, lg) ==
  LET d == Tercio(lo, hi)
      a == CambiosSubconjuntos(t, g, lo, lo + d - 1, lg)
      b == CambiosSubconjuntos(a.t, g, lo + d, lo + 2 * d - 1, lg)
      e == CambiosSubconjuntos(b.t, g, lo + 2 * d, hi, lg)
  IN  CASE lo > hi -> [t |-> t, r |-> 0]
        [] lo = hi ->
             CambiosLargos(t, g, g[lo], 1, Len(t[g[lo]].posible) - 1, lg)
        [] OTHER -> [r |-> a.r + b.r + e.r, t |-> e.t]

CambiosHechos(t, g, lg) ==
  LET a == CambiosUnicos(t, g, 1, Len(g), lg)
      b == CambiosSubconjuntos(a.t, g, 1, Len(g), lg)
  IN  [r |-> a.r + b.r, t |-> b.t]

\* the combinations Grupo.revisar hands to Grupo.asignar for the cell c of
\* the group g when the board is t
Asignables(t, g, c) ==
  {comb \in UNION {Range(combinations(t[c].posible, largo)) :
                      largo \in 1..(Len(t[c].posible) - 1)} :
      /\ Grupo_incluye(t, g, comb) = Len(comb)
      /\ Grupo_incluye_unit(t, g, comb) = 0}

\* C12: change counts are exact.  Once the grid is loaded, on every board of
\* every call of resolver and for every group, the integer Grupo.revisar returns is the number of
\* its calls of setvalor and quitar that changed the board, and for every
\* combination revisar would hand to it, the integer Grupo.asignar returns
\* is the number of candidates its calls of quitar removed.
C12_CuentasExactas ==
  pc # "inicio" =>
  \A n \in 1..Len(tableros) : \A i \in 1..Len(Grupos) :
     /\ Grupo_revisar(tableros[n], Grupos[i], logger).r
          = CambiosHechos(tableros[n], Grupos[i], logger).r
     /\ \A k \in 1..SIZE : \A comb \in Asignables(tableros[n], Grupos[i], Grupos[i][k]) :
          Grupo_asignar(tableros[n], Grupos[i], comb, logger).r
            = Quitados(tableros[n], Grupos[i], comb, logger).r


----------------------------------------------------------------------------
(* C13 *)

\* the cell c of the board t is empty with at least two candidates, or has
\* a value and that value as its only candidate
CeldaBien(t, c) ==
  IF vacia(t, c) THEN Len(t[c].posible) >= 2
  ELSE t[c].posible = << t[c].valor >>

\* the step Paso makes from m, when it is a call of Celda.quitar on an empty
\* cell: the call does not return False (Grupo.quitar goes on to the next
\* cell) and the cell is as CeldaBien says once the call has removed the
\* value and, with one candidate left, assigned it
PasoBien(m) ==
  LET f == m.pila[Len(m.pila)]
      caux == GruposDe[f.celda][f.grupo][f.k]
  IN  (f.grupo <= 3 /\ f.k <= SIZE) =>
         ((caux # f.celda /\ vacia(m.t, caux)) =>
             /\ QuitarHasta(m.t, caux, f.valor).r
             /\ CeldaBien(Paso(m).t, caux))

\* Correr, looking at every step: `bien` is FALSE from the first step that
\* is not as PasoBien says
RECURSIVE CorrerBien(_, _)
CorrerBien(m, n) ==
  LET a == CorrerBien(m, n - 1)
      b == CorrerBien(a.m, n - 1)
      d == CorrerBien(b.m, n - 1)
  IN  CASE n = 0 -> [m |-> Paso(m), bien |-> PasoBien(m)]
        [] ~ a.bien \/ a.m.pila = << >> -> a
        [] ~ b.bien \/ b.m.pila = << >> -> b
        [] ~ d.bien \/ d.m.pila = << >> -> d
        [] OTHER -> CorrerBien(d.m, n - 1)

\* every call of setvalor that cargar makes on the grid, up to the first one
\* that returns False, is made on a board whose cells are as CeldaBien says
\* and is as CorrerBien says
CargarBien ==
  \A c \in 1..NCeldas :
     LET antes == CargarEntre(TableroNuevo, carga, 1, c - 1, logger)
         v == carga[FilaDe(c) + 1][ColumnaDe(c) + 1]
     IN  antes.r =>
            /\ \A p \in 1..NCeldas : CeldaBien(antes.t, p)
            /\ (v # 0 /\ v \in Range(antes.t[c].posible)) =>
                  CorrerBien([t |-> Asignada(antes.t, c, v, PyTrue),
                              pila |-> << Llamada(c, v, logger) >>], PasosLog).bien

\* C13: an empty cell has at least two candidates.  On every board cargar
\* goes through and on every board of every call of resolver, every empty
\* cell has at least two candidates and every cell with a value has that
\* value as its only candidate, so the test of Tablero.valido for an empty
\* cell without candidates does not fail; and in every call of setvalor
\* cargar makes, and whatever empty cell and candidate setvalor or quitar is
\* called with on the innermost board of resolver, no call of Celda.quitar
\* made on the way returns False, Grupo.quitar never stops before the end of
\* its group, and every cell touched is so again when the call on it has
\* returned.
C13_DosCandidatos ==
  /\ pc = "inicio" => CargarBien
  /\ \A n \in 1..Len(tableros) : \A c \in 1..NCeldas :
        /\ CeldaBien(tableros[n], c)
        /\ ~ (vacia(tableros[n], c) /\ tableros[n][c].posible = << >>)
  /\ \A c \in 1..NCeldas : \A k \in 1..Len(tableros[Len(tableros)][c].posible) :
        LET t == tableros[Len(tableros)]
            v == t[c].posible[k]
            q == Celda_quitar(t, c, v, logger)
        IN  vacia(t, c) =>
               /\ CorrerBien([t |-> Asignada(t, c, v, logger),
                              pila |-> << Llamada(c, v, PyNone) >>], PasosLog).bien
               /\ q.r
               /\ \A p \in 1..NCeldas : CeldaBien(q.t, p)

\* a clone of the board has had a candidate assigned by resolver, and the
\* cascade of removals has left it with the same value twice in a row,
\* column or box while every cell has its two candidates or its value
C13_Testigo ==
  /\ Len(tableros) >= 2
  /\ ~ SinDuplicados(tableros[Len(tableros)])
  /\ \E c \in 1..NCeldas : vacia(tableros[Len(tableros)], c)
  /\ \A c \in 1..NCeldas : CeldaBien(tableros[Len(tableros)], c)

====
